---- MODULE Spec2Model ----
(***************************************************************************)
(* finance-wizard: the FinanceAnalyzer (analysis of a transaction list     *)
(* into a FinancialInsights report), and the YNABClient with its file      *)
(* cache and budget selection, driven directly and through the             *)
(* ToolExecutor, and the interactive session with its chat loop.           *)
(*                                                                         *)
(* Money.  The analyzer receives amounts as decimal currency units.  Here  *)
(* an amount is the integer a standing for a / Unit currency units, and    *)
(* every quotient the code computes is kept as an exact fraction           *)
(* [num, den]; den = 0 is a division by zero.  Rounding of IEEE doubles is *)
(* not modelled.                                                           *)
(*                                                                         *)
(* Optional values.  "" stands for an absent (undefined, null or empty)    *)
(* string: all three are falsy in the code.  An optional field of the      *)
(* filter configuration is a sequence of length 0 (absent) or 1.           *)
(*                                                                         *)
(* Dates.  A date 'YYYY-MM-DD' is the integer YYYYMMDD, so that the order  *)
(* of dates and of months is the order of the integers.                    *)
(*                                                                         *)
(* Time.  Date.now() is counted in hours from 30 May 2024, 00:00.  An     *)
(* exception is a result with threw = TRUE.                                *)
(***************************************************************************)
EXTENDS Integers, Sequences, FiniteSets, Bags, TLC

VARIABLES
    transactions,   \* the YNABTransaction[] handed to analyzeTransactions
    config,         \* the optional AnalysisConfig: << >> or << cfg >>
    tzWest,         \* the process's local time zone is behind UTC
    pool,           \* which bounded input set the list is drawn from
    filteredTransactions, \* the list the last call analysed (its local)
    report,         \* the FinancialInsights the last call returned
    calls,          \* the number of analyzeTransactions calls made
    budgets,        \* the ids of the budgets the budgeting API returns
    now,            \* Date.now(), in hours
    cacheDurationHours, \* AppConfig.cacheDurationHours
    processes,      \* the client processes started so far
    budgetId,       \* YNABClient.budgetId of the running client
    selection,      \* selectedBudgetId of budget-config.json
    cache,          \* the files transactions_*.json of the cache directory
    outcome,        \* what the last operation on the client did
    pc,             \* where the interactive session stands
    conversationHistory, \* the messages the chat loop keeps
    insights,       \* the FinancialInsights of the session: << >> or << i >>
    chatTransactions, \* the transactions of the session
    pendingToolCalls, \* the toolCalls of the reply not executed yet
    assistantMessage, \* the assistant message being built: << >> or << m >>
    toolResults,    \* the tool results collected for the next user message
    turn,           \* what the current turn has shown and executed
    toolTurns       \* the turns so far in which the reply called tools

analyzerVars ==
    <<transactions, config, tzWest, pool, filteredTransactions, report, calls>>

clientVars ==
    <<budgets, now, cacheDurationHours, processes, budgetId, selection, cache,
      outcome>>

chatVars ==
    <<pc, conversationHistory, insights, chatTransactions,
      pendingToolCalls, assistantMessage, toolResults, turn, toolTurns>>

vars == <<analyzerVars, clientVars, chatVars>>

(***************************************************************************)
(* Bounds of the model.                                                    *)
(***************************************************************************)
\* amounts are multiples of 1/Unit currency units
Unit == 100
\* longest list drawn from WideDomain
MaxWide == 3
\* longest list drawn from DeepDomain
MaxDeep == 11
\* calls of analyzeTransactions made on one list
MaxCalls == 2
\* longest list drawn from MonthDomain
MaxMonth == 3

(***************************************************************************)
(* Generic helpers on sequences and fractions.                             *)
(***************************************************************************)
Abs(x) == IF x < 0 THEN -x ELSE x

RECURSIVE SumSeq(_)
SumSeq(s) == IF s = << >> THEN 0 ELSE s[1] + SumSeq(Tail(s))

RECURSIVE MaxSeq(_)
MaxSeq(s) ==
    IF Len(s) = 1 THEN s[1]
    ELSE LET m == MaxSeq(Tail(s)) IN IF s[1] >= m THEN s[1] ELSE m

Map(s, f(_)) == [i \in 1..Len(s) |-> f(s[i])]

\* a / b as the code's "/" computes it, exactly
Frac(a, b) == [num |-> a, den |-> b]

\* x < y for fractions with positive denominators
FracLess(x, y) == x.num * y.den < y.num * x.den

\* the keys of a Map filled in the order of ks: first occurrences, in order
RECURSIVE DistinctInOrder(_)
DistinctInOrder(ks) ==
    IF ks = << >> THEN << >>
    ELSE LET init == DistinctInOrder(SubSeq(ks, 1, Len(ks) - 1))
             k    == ks[Len(ks)]
         IN  IF \E i \in 1..Len(init) : init[i] = k THEN init
             ELSE Append(init, k)

(***************************************************************************)
(* Transactions and filter configurations.                                 *)
(***************************************************************************)
Txn(date, amount, account, payee, catId, catName, deleted) ==
    [date |-> date, amount |-> amount, account_id |-> account,
     payee_name |-> payee, category_id |-> catId, category_name |-> catName,
     deleted |-> deleted]

\* a list as the transaction source numbers it: ids are unique
WithId(t, n) ==
    [id |-> n, date |-> t.date, amount |-> t.amount,
     account_id |-> t.account_id, payee_name |-> t.payee_name,
     category_id |-> t.category_id, category_name |-> t.category_name,
     deleted |-> t.deleted]

WideDomain ==
    { Txn(20240115,  -50 * Unit, "acc1", "Grocer", "c1", "Groceries", FALSE),
      Txn(20240220,  -30 * Unit, "acc1", "Grocer", "c1", "Groceries", FALSE),
      Txn(20240201, 1000 * Unit, "acc2", "Employer", "", "", FALSE),
      Txn(20240301,  -25 * Unit, "acc2", "Transfer : Visa", "", "", FALSE),
      Txn(20240110,  -15 * Unit, "acc1", "Transferwise", "", "Groceries", FALSE),
      Txn(20240125,  -20 * Unit, "acc1", "Transfer : Visa", "c2", "", FALSE),
      Txn(20240205,  -10 * Unit, "acc2", "Wire Transfer", "", "", FALSE),
      Txn(20240210,  -50 * Unit, "acc2", "", "c3", "Dining", FALSE),
      Txn(20240118,  -70 * Unit, "acc1", "Grocer", "c1", "Groceries", TRUE) }

DeepDomain ==
    { Txn(20240105,  -3 * Unit, "acc1", "Cafe", "c4", "Coffee", FALSE),
      Txn(20240207, -20 * Unit, "acc1", "Roaster", "c4", "Coffee", FALSE) }

\* one payee and category over three months, one charge on the first day
\* of a month
MonthDomain ==
    { Txn(20240115, -10 * Unit, "acc1", "Power Co", "c5", "Utilities", FALSE),
      Txn(20240201, -20 * Unit, "acc1", "Power Co", "c5", "Utilities", FALSE),
      Txn(20240220, -12 * Unit, "acc1", "Power Co", "c5", "Utilities", FALSE),
      Txn(20240310, -11 * Unit, "acc1", "Power Co", "c5", "Utilities", FALSE) }

Domain(p) ==
    IF p = "wide" THEN WideDomain
    ELSE IF p = "deep" THEN DeepDomain ELSE MonthDomain
MaxLen(p) ==
    IF p = "wide" THEN MaxWide ELSE IF p = "deep" THEN MaxDeep ELSE MaxMonth

Cfg(startDate, endDate, includedAccounts, excludedCategories, minAmount) ==
    [startDate |-> startDate, endDate |-> endDate,
     includedAccounts |-> includedAccounts,
     excludedCategories |-> excludedCategories,
     minTransactionAmount |-> minAmount]

\* the configurations tried: << >> is a call without config
WideConfigs ==
    { << >>,
      << Cfg(<< >>, << >>, << >>, << >>, << >>) >>,
      << Cfg(<<20240120>>, <<20240210>>, << >>, << >>, << >>) >>,
      << Cfg(<< >>, << >>, << << >> >>, << << >> >>, <<0>>) >>,
      << Cfg(<< >>, << >>, << <<"acc1">> >>, << >>, << >>) >>,
      << Cfg(<< >>, << >>, << >>, << <<"c1", "">> >>, << >>) >>,
      << Cfg(<<20240101>>, << >>, << <<"acc1", "acc2">> >>, << <<"c3">> >>,
             <<25 * Unit>>) >> }

DeepConfigs == { << >> }

Configs(p) == IF p = "wide" THEN WideConfigs ELSE DeepConfigs

\* the local time zones tried with a pool and a configuration
Zones(p, cfg) ==
    IF p = "month" \/ (p = "wide" /\ cfg = << >>) THEN BOOLEAN ELSE {FALSE}

(***************************************************************************)
(* FinanceAnalyzer.                                                        *)
(***************************************************************************)
\* config?.f is truthy: the field is there (a Date or a number other than 0)
HasDate(cfg, f) == cfg # << >> /\ cfg[1][f] # << >>
HasList(cfg, f) ==
    cfg # << >> /\ cfg[1][f] # << >> /\ Len(cfg[1][f][1]) > 0
HasMin(cfg) ==
    cfg # << >> /\ cfg[1].minTransactionAmount # << >>
                /\ cfg[1].minTransactionAmount[1] # 0

InSeq(x, s) == \E i \in 1..Len(s) : s[i] = x

NotDeleted(t) == ~t.deleted

\* the mutant of filterDeleted: the deleted flag is not looked at
filterDeletedNot(T) == T

filterDeleted(T) == SelectSeq(T, NotDeleted)

filterStartDate(T, cfg) ==
    LET AfterStart(t) == t.date >= cfg[1].startDate[1]
    IN  IF HasDate(cfg, "startDate") THEN SelectSeq(T, AfterStart) ELSE T

\* the mutant of filterEndDate: the end date is not applied
filterEndDateNot(T, cfg) == T

filterEndDate(T, cfg) ==
    LET BeforeEnd(t) == t.date <= cfg[1].endDate[1]
    IN  IF HasDate(cfg, "endDate") THEN SelectSeq(T, BeforeEnd) ELSE T

filterIncludedAccounts(T, cfg) ==
    LET Included(t) == InSeq(t.account_id, cfg[1].includedAccounts[1])
    IN  IF HasList(cfg, "includedAccounts") THEN SelectSeq(T, Included) ELSE T

\* t.category_id || '' is looked up: no category counts as ''
filterExcludedCategories(T, cfg) ==
    LET NotExcluded(t) == ~InSeq(t.category_id, cfg[1].excludedCategories[1])
    IN  IF HasList(cfg, "excludedCategories") THEN SelectSeq(T, NotExcluded)
        ELSE T

\* the mutant of filterMinAmount: > for >=
filterMinAmountStrict(T, cfg) ==
    LET BigEnough(t) == Abs(t.amount) > cfg[1].minTransactionAmount[1]
    IN  IF HasMin(cfg) THEN SelectSeq(T, BigEnough) ELSE T

filterMinAmount(T, cfg) ==
    LET BigEnough(t) == Abs(t.amount) >= cfg[1].minTransactionAmount[1]
    IN  IF HasMin(cfg) THEN SelectSeq(T, BigEnough) ELSE T

filterTransactions(T, cfg) ==
    filterMinAmount(
        filterExcludedCategories(
            filterIncludedAccounts(
                filterEndDate(filterStartDate(filterDeleted(T), cfg), cfg),
                cfg),
            cfg),
        cfg)

IsOutflow(t) == t.amount < 0
IsInflow(t) == t.amount > 0
AmountOf(t) == t.amount
AbsAmountOf(t) == Abs(t.amount)

\* the mutant of calculateTotalSpent: Math.abs is left out
calculateTotalSpentSigned(T) == SumSeq(Map(SelectSeq(T, IsOutflow), AmountOf))

calculateTotalSpent(T) == SumSeq(Map(SelectSeq(T, IsOutflow), AbsAmountOf))

calculateTotalIncome(T) == SumSeq(Map(SelectSeq(T, IsInflow), AmountOf))

calculateNetCashFlow(T) == SumSeq(Map(T, AmountOf))

\* Array.prototype.sort with comparator cmp, where Before(a, b) is
\* cmp(a, b) < 0: a stable sort, so equal elements keep their order
SortBy(s, Before(_, _)) ==
    LET n == Len(s)
        Ahead(j, i) == \/ Before(s[j], s[i])
                       \/ (~Before(s[i], s[j]) /\ j < i)
        Rank(i) == Cardinality({j \in 1..n : j # i /\ Ahead(j, i)}) + 1
    IN  [p \in 1..n |-> s[CHOOSE i \in 1..n : Rank(i) = p]]

\* a Map<key, T[]> filled by pushing each element under key(element):
\* its entries, in insertion order of the keys
GroupBy(T, key(_)) ==
    LET ks == DistinctInOrder(Map(T, key))
    IN  [k \in 1..Len(ks) |->
            LET Has(t) == key(t) = ks[k]
            IN  [key |-> ks[k], items |-> SelectSeq(T, Has)]]

\* String.prototype.startsWith
startsWith(s, prefix) ==
    Len(s) >= Len(prefix) /\ SubSeq(s, 1, Len(prefix)) = prefix

\* the mutant of getCategoryName: the category name is tested, not the id
getCategoryNameByName(t) ==
    IF startsWith(t.payee_name, "Transfer") /\ t.category_name = ""
    THEN "Credit Card Payment"
    ELSE IF t.category_name # "" THEN t.category_name ELSE "Uncategorized"

getCategoryName(t) ==
    IF startsWith(t.payee_name, "Transfer") /\ t.category_id = ""
    THEN "Credit Card Payment"
    ELSE IF t.category_name # "" THEN t.category_name ELSE "Uncategorized"

\* format(new Date(date), 'yyyy-MM') as the integer YYYYMM: the date string
\* is parsed as midnight UTC and formatted in local time, which is the day
\* before when the local zone is behind UTC
formatMonth(date, west) ==
    LET ym == date \div 100
    IN  IF west /\ date % 100 = 1
        THEN (IF ym % 100 = 1 THEN ym - 89 ELSE ym - 1)
        ELSE ym

sortTrends(trends) ==
    LET Earlier(a, b) == a.month < b.month
    IN  SortBy(trends, Earlier)

analyzeMonthlyTrends(T, west) ==
    LET MonthOf(t) == formatMonth(t.date, west)
        Trend(g) == [month |-> g.key,
                     spent |-> calculateTotalSpent(g.items),
                     income |-> calculateTotalIncome(g.items),
                     netFlow |-> calculateNetCashFlow(g.items)]
    IN  sortTrends(Map(GroupBy(T, MonthOf), Trend))

getUniqueMonths(T, west) ==
    LET MonthOf(t) == formatMonth(t.date, west)
    IN  DistinctInOrder(Map(T, MonthOf))

\* change = (last - first) / first compared with 0.1 and -0.1; a first total
\* of 0 gives Infinity (last > 0) or NaN (last = 0)
calculateTrend(T, west) ==
    LET monthlyTotals == analyzeMonthlyTrends(T, west)
        first == monthlyTotals[1].spent
        last  == monthlyTotals[Len(monthlyTotals)].spent
    IN  IF Len(monthlyTotals) < 2 THEN "stable"
        ELSE IF first = 0
             THEN (IF last > 0 THEN "increasing" ELSE "stable")
        ELSE IF 10 * (last - first) > first THEN "increasing"
        ELSE IF 10 * (last - first) < -first THEN "decreasing"
        ELSE "stable"

\* the mutant of outflowsByCategory: a bucket is set anew at each
\* transaction instead of pushed to, and holds the last one only
outflowsByCategoryOverwriting(T) ==
    LET Last(g) == [key |-> g.key, items |-> <<g.items[Len(g.items)]>>]
    IN  Map(GroupBy(SelectSeq(T, IsOutflow), getCategoryName), Last)

\* the mutant of outflowsByCategory: the filter t.amount < 0 is left out
transactionsByCategory(T) == GroupBy(T, getCategoryName)

\* the categoryMap of analyzeSpendingPatterns and of findUnusualSpikes
outflowsByCategory(T) == GroupBy(SelectSeq(T, IsOutflow), getCategoryName)

\* the mutant of percentageOfTotal: the ratio, not times 100
percentageAsRatio(totalAmount, totalSpent) == Frac(totalAmount, totalSpent)

percentageOfTotal(totalAmount, totalSpent) ==
    Frac(totalAmount * 100, totalSpent)

\* the mutant of sortPatterns: a.totalAmount - b.totalAmount
sortPatternsAscending(patterns) ==
    LET Smaller(a, b) == a.totalAmount < b.totalAmount
    IN  SortBy(patterns, Smaller)

sortPatterns(patterns) ==
    LET Larger(a, b) == b.totalAmount < a.totalAmount
    IN  SortBy(patterns, Larger)

analyzeSpendingPatterns(T, west) ==
    LET categoryMap == outflowsByCategory(T)
        totalSpent == calculateTotalSpent(T)
        Pattern(g) ==
            LET totalAmount == SumSeq(Map(g.items, AbsAmountOf))
                transactionCount == Len(g.items)
                months == getUniqueMonths(g.items, west)
            IN  [category |-> g.key,
                 totalAmount |-> totalAmount,
                 transactionCount |-> transactionCount,
                 averageAmount |-> Frac(totalAmount, transactionCount),
                 monthlyAverage |-> Frac(totalAmount, Len(months)),
                 trend |-> calculateTrend(g.items, west),
                 percentageOfTotal |->
                     percentageOfTotal(totalAmount, totalSpent)]
    IN  sortPatterns(Map(categoryMap, Pattern))

\* thresholds of the detectors
SubscriptionMinCount == 2
MonthsPerYear == 12
SmallPurchaseLimit == 20
HighFrequencyMin == 10
SpikeMinCount == 5
SpikeFactor == 3
OutlierFactor == 5

\* n.toFixed(2) of the amount x.num / x.den: hundredths of a currency unit,
\* rounded half up
toFixed2(x) ==
    (200 * x.num + x.den * Unit) \div (2 * x.den * Unit)

\* the mutant of outflowsByPayee: the test of payee_name is left out
outflowsByPayeeOrNone(T) ==
    LET PayeeOf(t) == t.payee_name
    IN  GroupBy(SelectSeq(T, IsOutflow), PayeeOf)

\* the payeeMap of findRecurringSubscriptions
outflowsByPayee(T) ==
    LET HasPayee(t) == t.amount < 0 /\ t.payee_name # ""
        PayeeOf(t) == t.payee_name
    IN  GroupBy(SelectSeq(T, HasPayee), PayeeOf)

findRecurringSubscriptions(T) ==
    LET payeeMap == outflowsByPayee(T)
        Square(a) == a * a
        Consistent(g) ==
            \* variance < avgAmount * 0.1, in currency units
            LET amounts == Map(g.items, AbsAmountOf)
                n == Len(amounts)
                S == SumSeq(amounts)
            IN  /\ n >= SubscriptionMinCount
                /\ 10 * (n * SumSeq(Map(amounts, Square)) - S * S) < S * n * Unit
        Opportunity(g) ==
            LET amounts == Map(g.items, AbsAmountOf)
                avgAmount == Frac(SumSeq(amounts), Len(amounts))
            IN  [type |-> "recurring_subscription",
                 category |-> IF g.items[1].category_name # ""
                              THEN g.items[1].category_name
                              ELSE "Uncategorized",
                 description |-> <<"Review subscription to", g.key,
                                   toFixed2(avgAmount)>>,
                 potentialSavings |->
                     Frac(avgAmount.num * MonthsPerYear, avgAmount.den),
                 confidence |-> "high",
                 recommendations |->
                     <<"Review if this subscription is still needed",
                       "Check for cheaper alternatives",
                       "Consider annual billing for discounts">>,
                 transactions |-> g.items]
    IN  Map(SelectSeq(payeeMap, Consistent), Opportunity)

\* the mutant of smallOutflowsByCategory: Math.abs(t.amount) <= 20
smallOutflowsByCategoryInclusive(T) ==
    LET Small(t) == t.amount < 0 /\ Abs(t.amount) <= SmallPurchaseLimit * Unit
    IN  GroupBy(SelectSeq(T, Small), getCategoryName)

\* the categoryMap of findHighFrequencySmallPurchases
smallOutflowsByCategory(T) ==
    LET Small(t) == t.amount < 0 /\ Abs(t.amount) < SmallPurchaseLimit * Unit
    IN  GroupBy(SelectSeq(T, Small), getCategoryName)

findHighFrequencySmallPurchases(T) ==
    LET categoryMap == smallOutflowsByCategory(T)
        Frequent(g) == Len(g.items) >= HighFrequencyMin
        Opportunity(g) ==
            LET totalAmount == SumSeq(Map(g.items, AbsAmountOf))
            IN  [type |-> "high_frequency_small",
                 category |-> g.key,
                 description |-> <<"Frequent small purchases in", g.key,
                                   Len(g.items),
                                   toFixed2(Frac(totalAmount, Len(g.items)))>>,
                 potentialSavings |-> Frac(totalAmount * 3, 10),
                 confidence |-> "medium",
                 recommendations |->
                     <<"Set a monthly budget for this category",
                       "Consider bulk purchasing",
                       "Track these purchases more carefully">>,
                 transactions |-> g.items]
    IN  Map(SelectSeq(categoryMap, Frequent), Opportunity)

findCategoryOverspending(T) == << >>

\* the mutant of spikeTransaction: the last transaction of the maximum
spikeTransactionLast(items) ==
    LET maxAmount == MaxSeq(Map(items, AbsAmountOf))
        IsMax(t) == Abs(t.amount) = maxAmount
        found == SelectSeq(items, IsMax)
    IN  found[Len(found)]

\* categoryTransactions.find(t => Math.abs(t.amount) === maxAmount)
spikeTransaction(items) ==
    LET maxAmount == MaxSeq(Map(items, AbsAmountOf))
        IsMax(t) == Abs(t.amount) = maxAmount
    IN  SelectSeq(items, IsMax)[1]

findUnusualSpikes(T) ==
    LET categoryMap == outflowsByCategory(T)
        Spiky(g) ==
            LET amounts == Map(g.items, AbsAmountOf)
            IN  /\ Len(amounts) >= SpikeMinCount
                /\ MaxSeq(amounts) * Len(amounts) > SumSeq(amounts) * SpikeFactor
        Opportunity(g) ==
            LET amounts == Map(g.items, AbsAmountOf)
                n == Len(amounts)
                maxAmount == MaxSeq(amounts)
            IN  [type |-> "unusual_spike",
                 category |-> g.key,
                 description |-> <<"Unusual spending spike in", g.key,
                                   toFixed2(Frac(maxAmount, 1)),
                                   toFixed2(Frac(SumSeq(amounts), n))>>,
                 potentialSavings |-> Frac(maxAmount * n - SumSeq(amounts), n),
                 confidence |-> "low",
                 recommendations |->
                     <<"Review what caused this large expense",
                       "Consider if this was a one-time purchase",
                       "Plan for similar expenses in the future">>,
                 transactions |-> <<spikeTransaction(g.items)>>]
    IN  Map(SelectSeq(categoryMap, Spiky), Opportunity)

sortOpportunities(opportunities) ==
    LET Larger(a, b) == FracLess(b.potentialSavings, a.potentialSavings)
    IN  SortBy(opportunities, Larger)

\* the mutant of findSavingsOpportunities: an opportunity that references a
\* transaction of an earlier one is dropped
findSavingsOpportunitiesDeduplicated(T) ==
    LET all == findRecurringSubscriptions(T)
               \o findHighFrequencySmallPurchases(T)
               \o findCategoryOverspending(T)
               \o findUnusualSpikes(T)
        Shares(a, b) ==
            \E i \in 1..Len(a.transactions), j \in 1..Len(b.transactions) :
                a.transactions[i] = b.transactions[j]
        Fresh(k) == \A h \in 1..(k - 1) : ~Shares(all[h], all[k])
        kept == {k \in 1..Len(all) : Fresh(k)}
        Nth(n) == CHOOSE k \in kept : Cardinality({h \in kept : h < k}) = n - 1
    IN  sortOpportunities([n \in 1..Cardinality(kept) |-> all[Nth(n)]])

findSavingsOpportunities(T) ==
    sortOpportunities(findRecurringSubscriptions(T)
                      \o findHighFrequencySmallPurchases(T)
                      \o findCategoryOverspending(T)
                      \o findUnusualSpikes(T))

analyzeBudgetPerformance(T) == << >>

\* the mutant of findUnusualTransactions: only outflows are returned
findUnusualOutflows(T) ==
    LET amounts == Map(SelectSeq(T, IsOutflow), AbsAmountOf)
        n == Len(amounts)
        Unusual(t) ==
            t.amount < 0 /\ Abs(t.amount) * n > SumSeq(amounts) * OutlierFactor
    IN  IF n = 0 THEN << >> ELSE SelectSeq(T, Unusual)

findUnusualTransactions(T) ==
    LET amounts == Map(SelectSeq(T, IsOutflow), AbsAmountOf)
        n == Len(amounts)
        Unusual(t) == Abs(t.amount) * n > SumSeq(amounts) * OutlierFactor
    IN  IF n = 0 THEN << >> ELSE SelectSeq(T, Unusual)

\* s[1] \o s[2] \o ... for a sequence of sequences
RECURSIVE Flatten(_)
Flatten(s) == IF s = << >> THEN << >> ELSE s[1] \o Flatten(Tail(s))

\* every "/" one call evaluates on the filtered list T, with the value of
\* its right operand, in the order of analyzeTransactions
divisions(T, west) ==
    LET Div(site, den) == [site |-> site, den |-> den]
        OfPattern(g) ==
            LET monthlyTotals == analyzeMonthlyTrends(g.items, west)
            IN  << Div("averageAmount", Len(g.items)),
                   Div("monthlyAverage", Len(getUniqueMonths(g.items, west))) >>
                \o (IF Len(monthlyTotals) < 2 THEN << >>
                    ELSE << Div("change", monthlyTotals[1].spent) >>)
                \o << Div("percentageOfTotal", calculateTotalSpent(T)) >>
        OfPayee(g) ==
            IF Len(g.items) >= SubscriptionMinCount
            THEN << Div("subscription avgAmount", Len(g.items)),
                    Div("subscription variance", Len(g.items)) >>
            ELSE << >>
        OfSmall(g) ==
            IF Len(g.items) >= HighFrequencyMin
            THEN << Div("small avgAmount", Len(g.items)) >>
            ELSE << >>
        OfSpike(g) ==
            IF Len(g.items) >= SpikeMinCount
            THEN << Div("spike avgAmount", Len(g.items)) >>
            ELSE << >>
        outflows == Len(SelectSeq(T, IsOutflow))
    IN  Flatten(Map(outflowsByCategory(T), OfPattern))
        \o Flatten(Map(outflowsByPayee(T), OfPayee))
        \o Flatten(Map(smallOutflowsByCategory(T), OfSmall))
        \o Flatten(Map(outflowsByCategory(T), OfSpike))
        \o (IF outflows = 0 THEN << >>
            ELSE << Div("unusual avgAmount", outflows) >>)

analyzeTransactions(T, cfg, west) ==
    LET filtered == filterTransactions(T, cfg)
    IN  [totalSpent |-> calculateTotalSpent(filtered),
         totalIncome |-> calculateTotalIncome(filtered),
         netCashFlow |-> calculateNetCashFlow(filtered),
         topSpendingCategories |->
             analyzeSpendingPatterns(filtered, west),
         savingsOpportunities |-> findSavingsOpportunities(filtered),
         budgetAnalysis |-> analyzeBudgetPerformance(filtered),
         unusualTransactions |-> findUnusualTransactions(filtered),
         monthlyTrends |-> analyzeMonthlyTrends(filtered, west)]

(***************************************************************************)
(* The YNABClient: budget selection, fetch and file cache.  The client's   *)
(* own state is st = [budgetId, selection, cache]; e is what one call      *)
(* meets: the API's budgets and data, the clock, whether the API answers,  *)
(* and what the user answers to the prompts.                               *)
(***************************************************************************)
MaxCacheAgeHours == 24
DefaultMonths == 3
HoursPerDay == 24
MilliunitsPerUnit == 1000

\* the budget lists the API is tried with
BudgetLists == { << >>, <<"b1">>, <<"b1", "b2">> }

\* the values of CACHE_DURATION_HOURS tried
CacheDurations == {12, 24}

\* GET /budgets/{b}/transactions: what the API holds for budget b at hour
\* h, amounts in milliunits and whole cents; the first amount grows with
\* time
Response(b, h) ==
    << [id |-> <<b, 1>>, amount |-> -12500 - 10 * h, category_name |-> "Coffee",
        deleted |-> FALSE],
       [id |-> <<b, 2>>, amount |-> -3000, category_name |-> "",
        deleted |-> TRUE] >>

\* the response without its deleted transactions, amounts in units
received(b, v) ==
    LET FromMilliunits(t) ==
            [id |-> t.id, amount |-> Frac(t.amount, MilliunitsPerUnit),
             category_name |-> t.category_name, deleted |-> t.deleted]
    IN  Map(SelectSeq(Response(b, v), NotDeleted), FromMilliunits)

\* new Date() as yyyyMMdd: the clock starts with 30 May 2024, so that the
\* start date of the cache key is the same on the next day
Today(hours) == 20240530 + hours \div HoursPerDay

\* the days of the months of 2024
DaysInMonth == <<31, 29, 31, 30, 31, 30, 31, 31, 30, 31, 30, 31>>

\* subMonths(new Date(), months) formatted 'yyyy-MM-dd', for less than a
\* year of months: the day is clamped to the last day of the target month
subMonths(hours, months) ==
    LET today == Today(hours)
        year == today \div 10000
        month == (today \div 100) % 100
        day == today % 100
        back == month - months
        y == IF back < 1 THEN year - 1 ELSE year
        m == IF back < 1 THEN back + 12 ELSE back
        d == IF day > DaysInMonth[m] THEN DaysInMonth[m] ELSE day
    IN  y * 10000 + m * 100 + d

\* transactions_${budgetId}_${startDate}_${months}
cacheKey(id, startDate, months) ==
    [budget |-> IF id = "" THEN "unknown" ELSE id,
     startDate |-> startDate, months |-> months]

\* BudgetManager.validateSelectedBudget
validateSelectedBudget(saved, bs) == saved # "" /\ InSeq(saved, bs)

\* BudgetManager.selectBudget: the only budget, or the one the user picks
selectBudget(bs, pick) == IF Len(bs) = 1 THEN bs[1] ELSE bs[pick]

ensureBudgetSelected(st, e) ==
    IF ~e.budgetsUp \/ Len(e.budgets) = 0
    THEN [threw |-> TRUE, st |-> st]
    ELSE IF st.selection # "" /\ validateSelectedBudget(st.selection, e.budgets)
    THEN [threw |-> FALSE, st |-> [st EXCEPT !.budgetId = st.selection]]
    ELSE LET id == selectBudget(e.budgets, e.pick)
         IN  [threw |-> FALSE,
              st |-> [st EXCEPT !.budgetId = id, !.selection = id]]

\* YNABClient.clearCache: the files left in the cache directory
clearCache(st, budgetSpecific) ==
    IF budgetSpecific /\ st.budgetId # ""
    THEN {f \in st.cache : f.key.budget # st.budgetId}
    ELSE {}

\* BudgetManager.promptForBudgetReselection
promptForBudgetReselection(st, e) ==
    IF e.shouldChange
    THEN IF Len(e.budgets) = 0
         THEN [threw |-> TRUE, id |-> "", selection |-> st.selection]
         ELSE LET id == selectBudget(e.budgets, e.pick)
              IN  [threw |-> FALSE, id |-> id, selection |-> id]
    ELSE [threw |-> FALSE, id |-> st.selection, selection |-> st.selection]

changeBudget(st, e) ==
    IF ~e.budgetsUp THEN [threw |-> TRUE, st |-> st]
    ELSE LET oldBudgetId == st.budgetId
             chosen == promptForBudgetReselection(st, e)
             switched == [st EXCEPT !.budgetId = chosen.id,
                                    !.selection = chosen.selection]
         IN  IF chosen.threw THEN [threw |-> TRUE, st |-> st]
             ELSE IF oldBudgetId # "" /\ oldBudgetId # chosen.id
             THEN [threw |-> FALSE,
                   st |-> [switched EXCEPT
                              !.cache = clearCache(switched, TRUE)]]
             ELSE [threw |-> FALSE, st |-> switched]

\* cacheAge < maxCacheAge
cacheIsFresh(age, configured) == age < MaxCacheAgeHours

\* what a call that does not return transactions gives back
NoTransactions(threw, fetched, key, st) ==
    [threw |-> threw, failed |-> FALSE, transactions |-> << >>,
     fromCache |-> FALSE, fetched |-> fetched, entry |-> << >>, key |-> key,
     st |-> st]

\* the mutant of SourceFailed: the failed call empties the cache directory
SourceFailedClearing(fetched, key, st) ==
    [NoTransactions(TRUE, fetched, key, [st EXCEPT !.cache = {}])
        EXCEPT !.failed = TRUE]

\* what a call gives back that throws what the budgeting API or the
\* budget selection has thrown
SourceFailed(fetched, key, st) ==
    [NoTransactions(TRUE, fetched, key, st) EXCEPT !.failed = TRUE]

\* YNABClient.getTransactions(o), o = [months, sinceDate, useCache]; with
\* months no number startDate is an Invalid Date, and format throws;
\* a cache file carries, besides its key, timestamp and transactions, the
\* budget its transactions were fetched for and whether it has outlived a
\* clear_cache call: the code reads neither
getTransactions(st, o, e) ==
    LET months == o.months.number
        startDate == IF o.sinceDate # << >> THEN o.sinceDate[1]
                     ELSE subMonths(e.now, months)
        key == cacheKey(st.budgetId, startDate, months)
        cacheFile == {f \in st.cache : f.key = key}
        cacheData == CHOOSE f \in cacheFile : TRUE
        selected == IF st.budgetId = "" THEN ensureBudgetSelected(st, e)
                    ELSE [threw |-> FALSE, st |-> st]
        fresh == received(selected.st.budgetId, e.now)
        written == [key |-> key, timestamp |-> e.now,
                    transactions |-> fresh,
                    fetchedFor |-> selected.st.budgetId,
                    survivedClear |-> FALSE]
    IN  IF o.sinceDate = << >> /\ o.months.type # "number"
        THEN NoTransactions(TRUE, FALSE, << >>, st)
        ELSE IF /\ o.useCache
           /\ cacheFile # {}
           /\ cacheIsFresh(e.now - cacheData.timestamp, e.cacheDurationHours)
        THEN [threw |-> FALSE, failed |-> FALSE,
              transactions |-> cacheData.transactions, fromCache |-> TRUE, fetched |-> FALSE, entry |-> <<cacheData>>,
              key |-> key, st |-> st]
        ELSE IF selected.threw THEN SourceFailed(TRUE, key, st)
        ELSE IF ~e.transactionsUp THEN SourceFailed(TRUE, key, selected.st)
        ELSE [threw |-> FALSE, failed |-> FALSE, transactions |-> fresh,
              fromCache |-> FALSE, fetched |-> TRUE, entry |-> <<written>>,
              key |-> key,
              st |-> [selected.st EXCEPT
                         !.cache = (st.cache \ cacheFile) \cup {written}]]

(***************************************************************************)
(* The ToolExecutor.  A tool call is [name, parameters]; parameters is     *)
(* << >> when the call has none, else << p >> with p's fields each << >>   *)
(* (not given) or << value >>, a value being a number or a string.         *)
(***************************************************************************)
Num(n) == [type |-> "number", number |-> n, string |-> ""]
Str(s) == [type |-> "string", number |-> 0, string |-> s]

\* the value is truthy
Truthy(v) == IF v.type = "number" THEN v.number # 0 ELSE v.string # ""

UpperCase == "ABCDEFGHIJKLMNOPQRSTUVWXYZ"
LowerCase == "abcdefghijklmnopqrstuvwxyz"

\* String.prototype.toLowerCase
RECURSIVE toLowerCase(_)
toLowerCase(s) ==
    IF Len(s) = 0 THEN ""
    ELSE LET c == SubSeq(s, 1, 1)
             at == {i \in 1..Len(UpperCase) : SubSeq(UpperCase, i, i) = c}
             l == IF at = {} THEN c
                  ELSE LET i == CHOOSE i \in at : TRUE
                       IN  SubSeq(LowerCase, i, i)
         IN  l \o toLowerCase(SubSeq(s, 2, Len(s)))

\* String.prototype.includes
includes(s, part) ==
    \E i \in 1..(Len(s) - Len(part) + 1) :
        SubSeq(s, i, i + Len(part) - 1) = part

ToolNames ==
    {"sync_transactions", "clear_cache", "analyze_transactions",
     "generate_report", "change_budget", "list_transactions"}

ReportTypes == {"summary", "savings", "budget", "trends"}
DefaultLimit == 10

Parameters(months, type, limit, category) ==
    [months |-> months, type |-> type, limit |-> limit, category |-> category]

\* the parameters tried: none at all, {}, and one field given, well or
\* badly formed
ToolParameters ==
    { << >>,
      << Parameters(<< >>, << >>, << >>, << >>) >>,
      << Parameters(<<Num(DefaultMonths)>>, << >>, << >>, << >>) >>,
      << Parameters(<<Str("abc")>>, << >>, << >>, << >>) >>,
      << Parameters(<< >>, <<Str("trends")>>, << >>, << >>) >>,
      << Parameters(<< >>, <<Str("bogus")>>, << >>, << >>) >>,
      << Parameters(<< >>, << >>, <<Str("abc")>>, << >>) >>,
      << Parameters(<< >>, << >>, << >>, <<Str("COF")>>) >>,
      << Parameters(<< >>, << >>, << >>, <<Num(7)>>) >> }

\* a handler's ToolResult together with what its getTransactions did
Result(success, message, g) ==
    [threw |-> FALSE, failed |-> g.failed, success |-> success,
     message |-> message, transactions |-> g.transactions, fromCache |-> g.fromCache,
     fetched |-> g.fetched, entry |-> g.entry, key |-> g.key, st |-> g.st]

\* a handler that throws instead of returning
Thrown(g) ==
    [threw |-> TRUE, failed |-> g.failed, success |-> FALSE, message |-> "",
     transactions |-> << >>, fromCache |-> g.fromCache,
     fetched |-> g.fetched, entry |-> g.entry, key |-> g.key, st |-> g.st]

\* a handler that has not called getTransactions
Untouched(st) == NoTransactions(FALSE, FALSE, << >>, st)

\* params.months || 3
monthsOrDefault(params) ==
    IF params[1].months # << >> /\ Truthy(params[1].months[1])
    THEN params[1].months[1]
    ELSE Num(DefaultMonths)

\* the mutant of syncTransactions: getTransactions may answer from the
\* cache
syncTransactionsFromCache(st, params, e) ==
    IF params = << >> THEN Thrown(Untouched(st))
    ELSE LET months == monthsOrDefault(params)
             g == getTransactions(st, [months |-> months, sinceDate |-> << >>,
                                       useCache |-> TRUE], e)
         IN  IF g.threw THEN Result(FALSE, "Failed to sync transactions", g)
             ELSE Result(TRUE, "Successfully synced", g)

syncTransactions(st, params, e) ==
    IF params = << >> THEN Thrown(Untouched(st))
    ELSE LET months == monthsOrDefault(params)
             g == getTransactions(st, [months |-> months, sinceDate |-> << >>,
                                       useCache |-> FALSE], e)
         IN  IF g.threw THEN Result(FALSE, "Failed to sync transactions", g)
             ELSE Result(TRUE, "Successfully synced", g)

toolClearCache(st, e) ==
    Result(TRUE, "Cache cleared successfully for current budget",
           Untouched([st EXCEPT !.cache = clearCache(st, TRUE)]))

toolAnalyzeTransactions(st, params, e) ==
    IF params = << >> THEN Thrown(Untouched(st))
    ELSE LET months == monthsOrDefault(params)
             g == getTransactions(st, [months |-> months, sinceDate |-> << >>,
                                       useCache |-> TRUE], e)
         IN  IF g.threw THEN Result(FALSE, "Failed to analyze transactions", g)
             ELSE Result(TRUE, "Analysis complete", g)

generateReport(st, params, e) ==
    IF params = << >> THEN Thrown(Untouched(st))
    ELSE LET reportType ==
                 IF params[1].type # << >> /\ Truthy(params[1].type[1])
                 THEN params[1].type[1]
                 ELSE Str("summary")
             g == getTransactions(st, [months |-> Num(DefaultMonths),
                                       sinceDate |-> << >>,
                                       useCache |-> TRUE], e)
         IN  IF g.threw THEN Result(FALSE, "Failed to generate report", g)
             ELSE IF reportType.type = "string"
                     /\ reportType.string \in ReportTypes
             THEN Result(TRUE, "report generated", g)
             ELSE Result(FALSE, "Unknown report type", g)

toolChangeBudget(st, e) ==
    LET c == changeBudget(st, e)
    IN  IF c.threw
        THEN Result(FALSE, "Failed to change budget",
                    SourceFailed(FALSE, << >>, c.st))
        ELSE Result(TRUE, "Budget changed to", Untouched(c.st))

\* category.toLowerCase() throws on a truthy category that is no string,
\* at the first transaction it is tried on; slice(0, limit) with a limit
\* that is no number is slice(0, 0)
listTransactions(st, params, e) ==
    IF params = << >> THEN Thrown(Untouched(st))
    ELSE LET p == params[1]
             g == getTransactions(st, [months |-> Num(DefaultMonths),
                                       sinceDate |-> << >>,
                                       useCache |-> TRUE], e)
             notDeleted == SelectSeq(g.transactions, NotDeleted)
             byCategory == p.category # << >> /\ Truthy(p.category[1])
             InCategory(t) ==
                 includes(toLowerCase(IF t.category_name # ""
                                      THEN t.category_name
                                      ELSE "Uncategorized"),
                          toLowerCase(p.category[1].string))
             filtered == IF byCategory THEN SelectSeq(notDeleted, InCategory)
                         ELSE notDeleted
             limit == IF p.limit = << >> THEN DefaultLimit
                      ELSE IF p.limit[1].type = "number"
                      THEN p.limit[1].number ELSE 0
             examples == SubSeq(filtered, 1,
                                IF limit < Len(filtered) THEN limit
                                ELSE Len(filtered))
         IN  IF g.threw THEN Result(FALSE, "Failed to list transactions", g)
             ELSE IF byCategory /\ p.category[1].type # "string"
                     /\ notDeleted # << >>
             THEN Result(FALSE, "Failed to list transactions", g)
             ELSE IF examples = << >>
             THEN Result(TRUE, "No transactions found", g)
             ELSE Result(TRUE, "Found matching transactions", g)

\* the switch of executeTool
dispatch(st, toolCall, e) ==
    CASE toolCall.name = "sync_transactions" ->
             syncTransactions(st, toolCall.parameters, e)
      [] toolCall.name = "clear_cache" -> toolClearCache(st, e)
      [] toolCall.name = "analyze_transactions" ->
             toolAnalyzeTransactions(st, toolCall.parameters, e)
      [] toolCall.name = "generate_report" ->
             generateReport(st, toolCall.parameters, e)
      [] toolCall.name = "change_budget" -> toolChangeBudget(st, e)
      [] toolCall.name = "list_transactions" ->
             listTransactions(st, toolCall.parameters, e)
      [] OTHER -> Result(FALSE, "Unknown tool", Untouched(st))

executeTool(st, toolCall, e) ==
    LET r == dispatch(st, toolCall, e)
    IN  IF r.threw
        THEN [r EXCEPT !.threw = FALSE, !.success = FALSE,
                       !.message = "Error executing"]
        ELSE r

(***************************************************************************)
(* The state machine of the client: one process after the other runs a     *)
(* YNABClient on the same cache directory and budget-config.json, calls    *)
(* it directly and through the ToolExecutor, while the clock advances and  *)
(* with it the data held by the budgeting API.                             *)
(***************************************************************************)
\* the clock stops at MaxHours, and advances by ClockStep hours at a time
MaxHours == 24
ClockStep == 12
\* the processes that run a client, one after the other
MaxProcesses == 2
\* the options getTransactions is called with directly: with and
\* without the cache
Options ==
    { [months |-> Num(DefaultMonths), sinceDate |-> << >>, useCache |-> u] :
        u \in BOOLEAN }

\* the API answers every request, the budget list only, or none
Availabilities == {"up", "budgets only", "down"}

\* the parameters a tool reads, besides none and {}
ParametersRead(n) ==
    CASE n \in {"sync_transactions", "analyze_transactions"} ->
             {p \in ToolParameters : p # << >> /\ p[1].months # << >>}
      [] n = "generate_report" ->
             {p \in ToolParameters : p # << >> /\ p[1].type # << >>}
      [] n = "list_transactions" ->
             {p \in ToolParameters :
                 p # << >> /\ (p[1].limit # << >> \/ p[1].category # << >>)}
      [] OTHER -> {}

\* every tool name and one that is none, each without parameters, with {}
\* and with the parameters it reads
ToolCalls ==
    { c \in [name : ToolNames \cup {"unknown_tool"},
             parameters : ToolParameters] :
        \/ c.parameters \in {<< >>, <<Parameters(<< >>, << >>, << >>, << >>)>>}
        \/ c.parameters \in ParametersRead(c.name) }

\* the tool calls that fetch without the cache, clear it or change budget
CacheToolCalls ==
    { c \in ToolCalls :
        \/ c.name = "sync_transactions"
        \/ /\ c.name \in {"clear_cache", "change_budget"}
           /\ c.parameters = <<Parameters(<< >>, << >>, << >>, << >>)>> }

St == [budgetId |-> budgetId, selection |-> selection, cache |-> cache]

Env(api, pick, shouldChange) ==
    [budgets |-> budgets, now |-> now,
     cacheDurationHours |-> cacheDurationHours,
     budgetsUp |-> api # "down", transactionsUp |-> api = "up",
     pick |-> pick, shouldChange |-> shouldChange]

\* the answers the user can give to "Which budget would you like to use?"
Picks == IF Len(budgets) < 2 THEN {1} ELSE 1..Len(budgets)

\* the budget selected when a call is made: the client's, or the saved one
\* when the client has not read it yet
SelectedBudget == IF budgetId # "" THEN budgetId ELSE selection

NoOutcome ==
    [op |-> "none", name |-> "", parameters |-> << >>, useCache |-> FALSE,
     threw |-> FALSE, failed |-> FALSE, success |-> FALSE, message |-> "",
     transactions |-> << >>, fromCache |-> FALSE, fetched |-> FALSE,
     entry |-> << >>, key |-> << >>, selected |-> "", freshBefore |-> FALSE,
     oldBudgetId |-> "", cacheBefore |-> {}]

\* the record of a call: r is what the call gave back, the rest is taken
\* from the state the call was made in; the cache directory as the call
\* found it is kept for the calls that fetch or change budget, unless they
\* have fetched and written
Outcome(op, name, parameters, useCache, success, message, r) ==
    LET before == IF r.key = << >> THEN {}
                  ELSE {f \in cache : f.key = r.key}
        kept == /\ \/ op \in {"getTransactions", "changeBudget"}
                   \/ name \in {"sync_transactions", "change_budget"}
                /\ ~(r.fetched /\ ~r.threw)
    IN  [op |-> op, name |-> name, parameters |-> parameters,
         useCache |-> useCache, threw |-> r.threw, failed |-> r.failed,
         success |-> success,
         message |-> message, transactions |-> r.transactions,
         fromCache |-> r.fromCache, fetched |-> r.fetched,
         entry |-> r.entry, key |-> r.key, selected |-> SelectedBudget,
         freshBefore |-> \E f \in before :
                            now - f.timestamp < MaxCacheAgeHours,
         oldBudgetId |-> budgetId,
         cacheBefore |-> IF kept THEN cache ELSE {}]

ClientIdle ==
    /\ budgets = << >>
    /\ now = 0
    /\ cacheDurationHours = MaxCacheAgeHours
    /\ processes = 1
    /\ budgetId = ""
    /\ selection = ""
    /\ cache = {}
    /\ outcome = NoOutcome

AnalyzerIdle ==
    /\ pool = "wide"
    /\ config = << >>
    /\ tzWest = FALSE
    /\ transactions = << >>
    /\ filteredTransactions = << >>
    /\ report = << >>
    /\ calls = 0

\* no interactive session has started
NoTurn ==
    [sent |-> FALSE, failed |-> FALSE, shown |-> 0, executed |-> << >>,
     historyBefore |-> << >>]

ChatIdle ==
    /\ pc = "start"
    /\ conversationHistory = << >>
    /\ insights = << >>
    /\ chatTransactions = << >>
    /\ pendingToolCalls = << >>
    /\ assistantMessage = << >>
    /\ toolResults = << >>
    /\ turn = NoTurn
    /\ toolTurns = 0

ClientInit ==
    /\ budgets \in BudgetLists
    /\ cacheDurationHours \in CacheDurations
    /\ now = 0
    /\ processes = 1
    /\ budgetId = ""
    /\ selection = ""
    /\ cache = {}
    /\ outcome = NoOutcome
    /\ AnalyzerIdle
    /\ ChatIdle

\* the client's state after a call
Becomes(st) ==
    /\ budgetId' = st.budgetId
    /\ selection' = st.selection
    /\ cache' = st.cache

\* Date.now() advances
Tick ==
    /\ now + ClockStep <= MaxHours
    /\ now' = now + ClockStep
    /\ outcome' = NoOutcome
    /\ UNCHANGED <<budgets, cacheDurationHours, processes, budgetId,
                   selection, cache, analyzerVars, chatVars>>

\* the process ends and a new one constructs its YNABClient
Restart ==
    /\ processes < MaxProcesses
    /\ processes' = processes + 1
    /\ budgetId' = ""
    /\ outcome' = NoOutcome
    /\ UNCHANGED <<budgets, now, cacheDurationHours, selection, cache,
                   analyzerVars, chatVars>>

\* ynabClient.getTransactions(o)
GetTransactions ==
    \E o \in Options, api \in Availabilities, pick \in Picks :
      \E r \in {getTransactions(St, o, Env(api, pick, FALSE))} :
        /\ Becomes(r.st)
        /\ outcome' = Outcome("getTransactions", "", << >>, o.useCache,
                              ~r.threw, "", r)
        /\ UNCHANGED <<budgets, now, cacheDurationHours, processes,
                       analyzerVars, chatVars>>

\* ynabClient.changeBudget()
ChangeBudget ==
    \E api \in {"up", "down"}, shouldChange \in BOOLEAN, pick \in Picks :
      \E c \in {changeBudget(St, Env(api, pick, shouldChange))} :
        LET r == IF c.threw THEN SourceFailed(FALSE, << >>, c.st)
                 ELSE NoTransactions(FALSE, FALSE, << >>, c.st)
        IN  /\ Becomes(c.st)
            /\ outcome' = Outcome("changeBudget", "", << >>, FALSE,
                                  ~c.threw, "", r)
            /\ UNCHANGED <<budgets, now, cacheDurationHours, processes,
                           analyzerVars, chatVars>>

\* ynabClient.clearCache(budgetSpecific)
ClearCache ==
    \E budgetSpecific \in BOOLEAN :
        LET r == NoTransactions(FALSE, FALSE, << >>, St)
        IN  /\ cache' = clearCache(St, budgetSpecific)
            /\ outcome' = Outcome("clearCache", "", << >>, FALSE, TRUE, "", r)
            /\ UNCHANGED <<budgets, now, cacheDurationHours, processes,
                           budgetId, selection, analyzerVars, chatVars>>

\* toolExecutor.executeTool(toolCall) for one of toolCalls; the files a
\* successful clear_cache leaves behind are marked as having survived it
ExecuteToolOf(toolCalls) ==
    \E toolCall \in toolCalls, api \in Availabilities, pick \in Picks :
      \E shouldChange \in (IF toolCall.name = "change_budget" THEN BOOLEAN
                           ELSE {FALSE}) :
      \E r \in {executeTool(St, toolCall, Env(api, pick, shouldChange))} :
        LET Survivor(f) == [f EXCEPT !.survivedClear = TRUE]
            cleared == ~r.threw /\ r.success /\ toolCall.name = "clear_cache"
        IN  /\ budgetId' = r.st.budgetId
            /\ selection' = r.st.selection
            /\ cache' = IF cleared THEN {Survivor(f) : f \in r.st.cache}
                        ELSE r.st.cache
            /\ outcome' = Outcome("executeTool", toolCall.name,
                                  toolCall.parameters,
                                  toolCall.name # "sync_transactions",
                                  r.success, r.message, r)
            /\ UNCHANGED <<budgets, now, cacheDurationHours, processes,
                           analyzerVars, chatVars>>

\* a tool call that works on the cache
ExecuteCacheTool == ExecuteToolOf(CacheToolCalls)

\* any tool call
ExecuteTool == ExecuteToolOf(ToolCalls)

ClientNext ==
    \/ Tick
    \/ Restart
    \/ GetTransactions
    \/ ChangeBudget
    \/ ClearCache
    \/ ExecuteCacheTool

ToolNext == ExecuteTool

\* the client, called directly and through the cache's tools
ClientSpec == ClientInit /\ [][ClientNext]_vars

\* the ToolExecutor of one process, called with every tool call
ToolSpec == ClientInit /\ [][ToolNext]_vars

(***************************************************************************)
(* The interactive session.  startInteractiveMode loads the transactions   *)
(* and their insights; startChatLoop prompts the user, sends the message   *)
(* and the conversation history to the chat endpoint, executes the tool    *)
(* calls of the reply one after the other, sends a continuation request    *)
(* and trims the history.  A message is [role, content], content being a   *)
(* sequence of blocks; a user message whose content is a string is the     *)
(* single text block the endpoint takes it for.  The steps of a turn are   *)
(* the stretches between two awaited calls.                                *)
(***************************************************************************)
MAX_HISTORY_LENGTH == 20
RecentTransactions == 20
\* the turns of one session in which the reply calls tools
MaxToolTurns == 2

Block(type, text, id, name, input) ==
    [type |-> type, text |-> text, id |-> id, name |-> name, input |-> input]

TextBlock(text) == Block("text", text, 0, "", << >>)

ToolUse(id, toolCall) ==
    Block("tool_use", "", id, toolCall.name, toolCall.parameters)

ToolResultBlock(tr) == Block("tool_result", tr.content, tr.tool_use_id, "", << >>)

Message(role, content) == [role |-> role, content |-> content]

\* `tool_${Date.now()}_${random}`: an id that no block of messages carries,
\* here the smallest such number
toolUseId(messages) ==
    LET used == {messages[i].content[j].id :
                    <<i, j>> \in {<<i, j>> \in (1..Len(messages)) \X (1..4) :
                                     j <= Len(messages[i].content)}}
    IN  CHOOSE n \in 1..(Cardinality(used) + 1) :
            n \notin used /\ \A k \in 1..(n - 1) : k \in used

\* Array.prototype.slice(-n)
slice(s, n) == IF Len(s) > n THEN SubSeq(s, Len(s) - n + 1, Len(s)) ELSE s

\* AIChat.chat: the request sent to the chat endpoint
chat(message, context, history) ==
    [system |-> context,
     messages |-> IF message # ""
                  THEN Append(history, Message("user", <<TextBlock(message)>>))
                  ELSE history]

\* conversationHistory.splice(0, length - MAX_HISTORY_LENGTH)
trimHistory(history) ==
    IF Len(history) > MAX_HISTORY_LENGTH
    THEN SubSeq(history, Len(history) - MAX_HISTORY_LENGTH + 1, Len(history))
    ELSE history

\* analyzer.analyzeTransactions(T) for transactions as getTransactions
\* returns them: the amount in units becomes the analyzer's multiple of
\* 1/Unit, and each gets the date, account and payee the responses of this
\* model leave out
insightsOf(T, west) ==
    LET Analysed(t) ==
            [id |-> t.id, date |-> 20240301,
             amount |-> (t.amount.num * Unit) \div t.amount.den,
             account_id |-> "acc1", payee_name |-> "Cafe",
             category_id |-> "", category_name |-> t.category_name,
             deleted |-> t.deleted]
    IN  analyzeTransactions(Map(T, Analysed), << >>, west)

\* what the loop over the tool calls of a reply does with the result r of
\* executeTool: on success the session's transactions are fetched again
\* after sync_transactions, and its insights replaced after
\* analyze_transactions; e is what the second getTransactions call meets
updateLocalState(r, held, ins, west, toolCall, e) ==
    LET synced == r.success /\ toolCall.name = "sync_transactions"
        analyzed == r.success /\ toolCall.name = "analyze_transactions"
        content == IF r.success THEN r.message ELSE "Error: " \o r.message
    IN  IF synced
        THEN CHOOSE x \in
               { IF again.threw
                 THEN [threw |-> TRUE, st |-> again.st, transactions |-> held,
                       insights |-> ins, content |-> content]
                 ELSE [threw |-> FALSE, st |-> again.st,
                       transactions |-> again.transactions,
                       insights |-> ins, content |-> content] :
                 again \in {getTransactions(r.st,
                               [months |-> monthsOrDefault(toolCall.parameters),
                                sinceDate |-> << >>, useCache |-> TRUE], e)} } :
               TRUE
        ELSE [threw |-> FALSE, st |-> r.st, transactions |-> held,
              insights |-> IF analyzed
                           THEN <<insightsOf(r.transactions, west)>>
                           ELSE ins,
              content |-> content]

\* what the chat endpoint answers: a rejection, or a reply with or without
\* text and with no, one or two tool calls
ChatToolCall(name) ==
    [name |-> name, parameters |-> <<Parameters(<< >>, << >>, << >>, << >>)>>]

ChatResult(threw, response, called_) ==
    [threw |-> threw, response |-> response, toolCalls |-> called_]

ChatResults ==
    { ChatResult(TRUE, "", << >>),
      ChatResult(FALSE, "reply", << >>),
      ChatResult(FALSE, "reply", <<ChatToolCall("sync_transactions")>>),
      ChatResult(FALSE, "", <<ChatToolCall("analyze_transactions"),
                              ChatToolCall("sync_transactions")>>) }

\* the context the chat loop hands to AIChat.chat
Context ==
    [insights |-> insights[1],
     recentTransactions |-> slice(chatTransactions, RecentTransactions)]

\* the request a first call of a turn sends from this state, and the one a
\* continuation sends
FirstRequest == chat("message", Context, conversationHistory)
ContinuationRequest == chat("", Context, conversationHistory)

ChatInit ==
    /\ budgets = <<"b1">>
    /\ cacheDurationHours = MaxCacheAgeHours
    /\ now = 0
    /\ processes = 1
    /\ budgetId = ""
    /\ selection = ""
    /\ cache = {}
    /\ outcome = NoOutcome
    /\ AnalyzerIdle
    /\ ChatIdle

\* startInteractiveMode up to the first prompt: the load of transactions
\* and insights, and the initial insights of the endpoint
StartInteractiveMode ==
    /\ pc = "start"
    /\ \E api \in {"up", "down"}, generated \in BOOLEAN :
       \E r \in {getTransactions(St, [months |-> Num(DefaultMonths),
                                      sinceDate |-> << >>,
                                      useCache |-> TRUE],
                                 Env(api, 1, FALSE))} :
         /\ Becomes(r.st)
         /\ IF r.threw \/ ~generated
            THEN /\ pc' = "ended"
                 /\ UNCHANGED <<chatTransactions, insights>>
            ELSE /\ pc' = "prompt"
                 /\ chatTransactions' = r.transactions
                 /\ insights' = <<insightsOf(r.transactions, tzWest)>>
         /\ UNCHANGED <<budgets, now, cacheDurationHours, processes, outcome,
                        analyzerVars, conversationHistory, pendingToolCalls,
                        assistantMessage, toolResults, turn, toolTurns>>

\* the user takes ClockStep hours to answer the prompt
Wait == pc = "prompt" /\ Tick

\* the user's message is sent: from the prompt to the first tool call, or
\* to the next prompt when the reply calls no tool or the request fails
SendMessage ==
    /\ pc = "prompt"
    /\ \E chatResult \in ChatResults :
         LET withUser == Append(conversationHistory,
                                Message("user", <<TextBlock("message")>>))
             message ==
                 Message("assistant",
                         IF chatResult.response # ""
                         THEN <<TextBlock(chatResult.response)>> ELSE << >>)
         IN  /\ chatResult.toolCalls # << >> => toolTurns < MaxToolTurns
             /\ IF chatResult.threw
                THEN /\ turn' = [NoTurn EXCEPT
                                    !.sent = TRUE, !.failed = TRUE,
                                    !.historyBefore = conversationHistory]
                     /\ UNCHANGED <<pc, conversationHistory, pendingToolCalls,
                                    assistantMessage, toolTurns>>
                ELSE /\ turn' = [NoTurn EXCEPT
                                    !.sent = TRUE,
                                    !.shown = IF chatResult.response # ""
                                              THEN 1 ELSE 0]
                     /\ IF chatResult.toolCalls = << >>
                        THEN /\ conversationHistory' =
                                   trimHistory(Append(withUser, message))
                             /\ UNCHANGED <<pc, pendingToolCalls,
                                            assistantMessage, toolTurns>>
                        ELSE /\ conversationHistory' = withUser
                             /\ pc' = "tools"
                             /\ pendingToolCalls' = chatResult.toolCalls
                             /\ assistantMessage' = <<message>>
                             /\ toolTurns' = toolTurns + 1
    /\ UNCHANGED <<clientVars, analyzerVars, insights, chatTransactions,
                   toolResults>>

\* the next tool call of the reply is executed; after the last one the
\* assistant message and the tool results join the history
ExecuteToolCall ==
    /\ pc = "tools"
    /\ \E api \in {"up", "down"}, again \in {"up", "down"} :
       \E toolCall \in {Head(pendingToolCalls)} :
       \E r \in {executeTool(St, toolCall, Env(api, 1, FALSE))} :
       \E x \in {updateLocalState(r, chatTransactions, insights, tzWest,
                                  toolCall, Env(again, 1, FALSE))} :
       \E id \in {toolUseId(conversationHistory \o assistantMessage)} :
       \E built \in {[assistantMessage[1] EXCEPT
                         !.content = Append(@, ToolUse(id, toolCall))]} :
       \E results \in {Append(toolResults, [tool_use_id |-> id,
                                            content |-> x.content])} :
         /\ Becomes(x.st)
         /\ turn' = [turn EXCEPT !.executed = Append(@, toolCall.name)]
         /\ IF x.threw
            THEN /\ pc' = "prompt"
                 /\ pendingToolCalls' = << >>
                 /\ assistantMessage' = << >>
                 /\ toolResults' = << >>
                 /\ UNCHANGED <<conversationHistory, insights,
                                chatTransactions>>
            ELSE /\ chatTransactions' = x.transactions
                 /\ insights' = x.insights
                 /\ pendingToolCalls' = Tail(pendingToolCalls)
                 /\ IF Tail(pendingToolCalls) = << >>
                    THEN /\ conversationHistory' =
                               conversationHistory \o
                               <<built,
                                 Message("user", Map(results, ToolResultBlock))>>
                         /\ pc' = "continue"
                         /\ assistantMessage' = << >>
                         /\ toolResults' = << >>
                    ELSE /\ assistantMessage' = <<built>>
                         /\ toolResults' = results
                         /\ UNCHANGED <<pc, conversationHistory>>
    /\ UNCHANGED <<budgets, now, cacheDurationHours, processes, outcome,
                   analyzerVars, toolTurns>>

\* the continuation request: its reply is shown, its tool calls are handed
\* on; without tool calls the turn ends with the trim
Continue ==
    /\ pc = "continue"
    /\ \E continuationResult \in ChatResults :
         IF continuationResult.threw
         THEN /\ pc' = "prompt"
              /\ UNCHANGED <<conversationHistory, pendingToolCalls, turn>>
         ELSE /\ turn' = [turn EXCEPT
                             !.shown = IF continuationResult.response # ""
                                       THEN @ + 1 ELSE @]
              /\ IF continuationResult.toolCalls = << >>
                 THEN /\ conversationHistory' =
                            trimHistory(conversationHistory)
                      /\ pc' = "prompt"
                      /\ UNCHANGED pendingToolCalls
                 ELSE /\ pc' = "more tools"
                      /\ pendingToolCalls' = continuationResult.toolCalls
                      /\ UNCHANGED conversationHistory
    /\ UNCHANGED <<clientVars, analyzerVars, insights, chatTransactions,
                   assistantMessage, toolResults, toolTurns>>

\* the next tool call of the continuation is executed; after the last one
\* the turn ends with the trim
ExecuteMoreToolCall ==
    /\ pc = "more tools"
    /\ \E api \in {"up", "down"}, again \in {"up", "down"} :
       \E toolCall \in {Head(pendingToolCalls)} :
       \E r \in {executeTool(St, toolCall, Env(api, 1, FALSE))} :
       \E x \in {updateLocalState(r, chatTransactions, insights, tzWest,
                                  toolCall, Env(again, 1, FALSE))} :
         /\ Becomes(x.st)
         /\ turn' = [turn EXCEPT !.executed = Append(@, toolCall.name)]
         /\ IF x.threw
            THEN /\ pc' = "prompt"
                 /\ pendingToolCalls' = << >>
                 /\ UNCHANGED <<conversationHistory, insights,
                                chatTransactions>>
            ELSE /\ chatTransactions' = x.transactions
                 /\ insights' = x.insights
                 /\ pendingToolCalls' = Tail(pendingToolCalls)
                 /\ IF Tail(pendingToolCalls) = << >>
                    THEN /\ conversationHistory' =
                               trimHistory(conversationHistory)
                         /\ pc' = "prompt"
                    ELSE UNCHANGED <<pc, conversationHistory>>
    /\ UNCHANGED <<budgets, now, cacheDurationHours, processes, outcome,
                   analyzerVars, assistantMessage, toolResults, toolTurns>>

ChatNext ==
    \/ StartInteractiveMode
    \/ Wait
    \/ SendMessage
    \/ ExecuteToolCall
    \/ Continue
    \/ ExecuteMoreToolCall

\* one interactive session on an empty cache directory
ChatSpec == ChatInit /\ [][ChatNext]_vars

(***************************************************************************)
(* The state machine of the analyzer: a caller holds a transaction list    *)
(* and a filter configuration, and calls analyzeTransactions on them,      *)
(* possibly again.                                                         *)
(***************************************************************************)
Init ==
    /\ pool \in {"wide", "deep", "month"}
    /\ config \in Configs(pool)
    /\ tzWest \in Zones(pool, config)
    /\ transactions = << >>
    /\ filteredTransactions = << >>
    /\ report = << >>
    /\ calls = 0
    /\ ClientIdle
    /\ ChatIdle

\* the transaction source delivers one more transaction of the list
AddTransaction ==
    /\ calls = 0
    /\ Len(transactions) < MaxLen(pool)
    /\ \E t \in Domain(pool) :
         transactions' = Append(transactions, WithId(t, Len(transactions) + 1))
    /\ UNCHANGED <<config, tzWest, pool, filteredTransactions, report, calls,
                   clientVars,
                   chatVars>>

\* the mutant of Analyze: the call sorts the caller's list by amount
AnalyzeSortingInput ==
    /\ calls < MaxCalls
    /\ filteredTransactions' = filterTransactions(transactions, config)
    /\ report' = analyzeTransactions(transactions, config, tzWest)
    /\ calls' = calls + 1
    /\ LET Smaller(a, b) == a.amount < b.amount
       IN  transactions' = SortBy(transactions, Smaller)
    /\ UNCHANGED <<config, tzWest, pool, clientVars,
                   chatVars>>

\* one call analyzeTransactions(transactions, config)
Analyze ==
    /\ calls < MaxCalls
    /\ filteredTransactions' = filterTransactions(transactions, config)
    /\ report' = analyzeTransactions(transactions, config, tzWest)
    /\ calls' = calls + 1
    /\ UNCHANGED <<transactions, config, tzWest, pool, clientVars,
                   chatVars>>

Next == AddTransaction \/ Analyze

Spec == Init /\ [][Next]_vars

(***************************************************************************)
(* What the specification says, stated without the analyzer's operators.   *)
(***************************************************************************)
\* every filter present in cfg holds of t, a field counting as present when
\* it is given at all
KeepsAsStated(t, cfg) ==
    /\ ~t.deleted
    /\ cfg # << >> =>
         LET c == cfg[1]
         IN  /\ c.startDate # << >> => t.date >= c.startDate[1]
             /\ c.endDate # << >> => t.date <= c.endDate[1]
             /\ c.includedAccounts # << >> =>
                    InSeq(t.account_id, c.includedAccounts[1])
             /\ c.excludedCategories # << >> =>
                    ~InSeq(t.category_id, c.excludedCategories[1])
             /\ c.minTransactionAmount # << >> =>
                    Abs(t.amount) >= c.minTransactionAmount[1]

\* the same, an empty includedAccounts list restricting nothing
Keeps(t, cfg) ==
    /\ ~t.deleted
    /\ cfg # << >> =>
         LET c == cfg[1]
         IN  /\ c.startDate # << >> => t.date >= c.startDate[1]
             /\ c.endDate # << >> => t.date <= c.endDate[1]
             /\ (c.includedAccounts # << >> /\ c.includedAccounts[1] # << >>) =>
                    InSeq(t.account_id, c.includedAccounts[1])
             /\ c.excludedCategories # << >> =>
                    ~InSeq(t.category_id, c.excludedCategories[1])
             /\ c.minTransactionAmount # << >> =>
                    Abs(t.amount) >= c.minTransactionAmount[1]

\* the post-filter transactions of the current list, and its outflows
PostFilter == LET K(t) == Keeps(t, config) IN SelectSeq(transactions, K)
Outflows == SelectSeq(PostFilter, IsOutflow)

\* the resolved category label: "no category" is no category id
Label(t) ==
    IF t.payee_name # "" /\ startsWith(t.payee_name, "Transfer")
       /\ t.category_id = ""
    THEN "Credit Card Payment"
    ELSE IF t.category_name = "" THEN "Uncategorized" ELSE t.category_name

Range(s) == {s[i] : i \in 1..Len(s)}
CountIn(s, P(_)) == Cardinality({i \in 1..Len(s) : P(s[i])})
BagOfSeq(s) == [x \in Range(s) |-> Cardinality({i \in 1..Len(s) : s[i] = x})]

RECURSIVE GCD(_, _)
GCD(a, b) == IF b = 0 THEN a ELSE GCD(b, a % b)

\* x + y for fractions with positive denominators, in lowest terms
FracAdd(x, y) ==
    LET n == x.num * y.den + y.num * x.den
        d == x.den * y.den
        g == GCD(Abs(n), d)
    IN  [num |-> n \div g, den |-> d \div g]

Lowest(x) == FracAdd(x, Frac(0, 1))

RECURSIVE FracSum(_)
FracSum(s) ==
    IF s = << >> THEN Frac(0, 1) ELSE FracAdd(Lowest(s[1]), FracSum(Tail(s)))

called == calls > 0

(***************************************************************************)
(* The claims.                                                             *)
(***************************************************************************)
\* C1: the report of every call satisfies
\* netCashFlow = totalIncome - totalSpent exactly, amounts being integers.
C1_NetCashFlow ==
    called => report.netCashFlow = report.totalIncome - report.totalSpent

\* a call with a filter configuration whose post-filter list has an inflow
\* and an outflow
C1_Witness ==
    /\ called /\ config # << >>
    /\ report.totalIncome > 0 /\ report.totalSpent > 0
    /\ Len(PostFilter) < Len(transactions)

\* C2: the totalAmount of the spending patterns sum to totalSpent, and every
\* post-filter outflow is counted in exactly one spending pattern.
C2_PatternsSumToTotalSpent ==
    called =>
      LET P == report.topSpendingCategories
          Total(p) == p.totalAmount
          Count(p) == p.transactionCount
      IN  /\ SumSeq(Map(P, Total)) = report.totalSpent
          /\ report.totalSpent = SumSeq(Map(Outflows, AbsAmountOf))
          /\ SumSeq(Map(P, Count)) = Len(Outflows)
          /\ \A i \in 1..Len(Outflows) :
                Cardinality({k \in 1..Len(P) :
                                P[k].category = Label(Outflows[i])}) = 1

\* a call whose report has two patterns, one of them of two transactions
C2_Witness ==
    /\ called
    /\ Len(report.topSpendingCategories) >= 2
    /\ \E k \in 1..Len(report.topSpendingCategories) :
          report.topSpendingCategories[k].transactionCount >= 2

\* C3: the percentageOfTotal of the spending patterns sum to 100 when
\* totalSpent > 0; no pattern's percentage is computed with a grand total of
\* 0, and every percentage is 0 when totalSpent = 0.
C3_PercentagesSumTo100 ==
    called =>
      LET P == report.topSpendingCategories
          Pct(p) == p.percentageOfTotal
      IN  /\ \A k \in 1..Len(P) : P[k].percentageOfTotal.den # 0
          /\ report.totalSpent > 0 => FracSum(Map(P, Pct)) = Frac(100, 1)
          /\ report.totalSpent = 0 =>
                \A k \in 1..Len(P) : P[k].percentageOfTotal.num = 0

\* a call whose report has three patterns, one with a percentage that is
\* no whole number
C3_Witness ==
    /\ called
    /\ Len(report.topSpendingCategories) >= 3
    /\ \E k \in 1..Len(report.topSpendingCategories) :
          Lowest(report.topSpendingCategories[k].percentageOfTotal).den > 1

\* C4: the report of a list is the report of that list without its deleted
\* transactions: a deleted transaction contributes to no field.
C4_DeletedNeverCounted ==
    called =>
      report = analyzeTransactions(SelectSeq(transactions, NotDeleted),
                                   config, tzWest)

\* a call on a list with a deleted transaction and others that are analysed
C4_Witness ==
    /\ called
    /\ \E i \in 1..Len(transactions) : transactions[i].deleted
    /\ Len(Outflows) >= 2

C6_EmptyInput ==
    (called /\ PostFilter = << >>) =>
      /\ report.totalSpent = 0 /\ report.totalIncome = 0
      /\ report.netCashFlow = 0
      /\ report.topSpendingCategories = << >>
      /\ report.savingsOpportunities = << >>
      /\ report.budgetAnalysis = << >>
      /\ report.unusualTransactions = << >>
      /\ report.monthlyTrends = << >>

\* a call on a list of which every transaction is deleted or filtered out,
\* at least one by the filter configuration
C6_Witness ==
    /\ called /\ PostFilter = << >>
    /\ \E i \in 1..Len(transactions) : ~transactions[i].deleted

\* C7: in each grouping step (spending patterns, high-frequency small
\* purchases, unusual spikes) a transaction whose payee name starts with
\* "Transfer" and that has no category id is under "Credit Card Payment",
\* never under "Uncategorized"; any other is under its category name, or
\* under "Uncategorized" when it has none.
C7_CategoryLabel ==
    called =>
      /\ \A m \in {outflowsByCategory(filteredTransactions),
                   smallOutflowsByCategory(filteredTransactions)} :
            \A k \in 1..Len(m) : \A i \in 1..Len(m[k].items) :
                /\ m[k].key = Label(m[k].items[i])
                /\ (startsWith(m[k].items[i].payee_name, "Transfer")
                    /\ m[k].items[i].category_id = "")
                   => m[k].key # "Uncategorized"
      /\ \A k \in 1..Len(report.topSpendingCategories) :
            LET p == report.topSpendingCategories[k]
                Under(t) == Label(t) = p.category
            IN  p.transactionCount = CountIn(Outflows, Under)

\* a call that groups a transfer without category, a transfer with a
\* category id and no name, and a payee that only contains "Transfer"
C7_Witness ==
    /\ called
    /\ \E i \in 1..Len(Outflows) :
          /\ startsWith(Outflows[i].payee_name, "Transfer")
          /\ Outflows[i].category_id = ""
    /\ \E i \in 1..Len(Outflows) :
          /\ startsWith(Outflows[i].payee_name, "Transfer")
          /\ Outflows[i].category_id # ""
    /\ \E i \in 1..Len(Outflows) : Outflows[i].payee_name = "Wire Transfer"
    /\ Len(report.topSpendingCategories) = 2

\* C8 as stated: the list analysed is the non-deleted transactions that
\* satisfy every filter field given in the configuration.
C8_FilterAsStated ==
    called =>
      LET K(t) == KeepsAsStated(t, config)
      IN  filteredTransactions = SelectSeq(transactions, K)

\* C8: the list analysed is, in input order, the non-deleted transactions
\* that satisfy every filter of the configuration, where an absent field
\* and an empty includedAccounts list restrict nothing.
C8_Filter ==
    called =>
      LET K(t) == Keeps(t, config)
      IN  filteredTransactions = SelectSeq(transactions, K)

\* a call with start date, included accounts, excluded categories and
\* minimum amount, which keeps one transaction and drops two
C8_Witness ==
    /\ called /\ config # << >>
    /\ config[1].startDate # << >>
    /\ config[1].minTransactionAmount # << >>
    /\ config[1].includedAccounts # << >>
    /\ Len(transactions) = 3 /\ Len(filteredTransactions) = 1
    /\ \A i \in 1..3 : ~transactions[i].deleted

\* C9: topSpendingCategories has exactly one pattern for each resolved label
\* of the post-filter outflows, its transactionCount the number of outflows
\* of that label, and the patterns are in non-increasing totalAmount order.
C9_Patterns ==
    called =>
      LET P == report.topSpendingCategories
      IN  /\ {P[k].category : k \in 1..Len(P)}
                = {Label(Outflows[i]) : i \in 1..Len(Outflows)}
          /\ \A k, h \in 1..Len(P) : P[k].category = P[h].category => k = h
          /\ \A k \in 1..Len(P) :
                LET Under(t) == Label(t) = P[k].category
                IN  P[k].transactionCount = CountIn(Outflows, Under)
          /\ \A k, h \in 1..Len(P) :
                k < h => P[k].totalAmount >= P[h].totalAmount

\* a call whose patterns are not in the order their labels first occur in
C9_Witness ==
    /\ called
    /\ Len(report.topSpendingCategories) >= 2
    /\ report.topSpendingCategories[1].category # Label(Outflows[1])
    /\ report.topSpendingCategories[1].totalAmount
          > report.topSpendingCategories[2].totalAmount

\* C10: savingsOpportunities is the multiset union of what the
\* recurring-subscription, high-frequency-small and unusual-spike detectors
\* return on the post-filter list, nothing being dropped when opportunities
\* share a transaction, in non-increasing potentialSavings order; none has
\* type category_overspend, and budgetAnalysis is empty.
C10_SavingsOpportunities ==
    called =>
      LET O == report.savingsOpportunities
      IN  /\ BagOfSeq(O) = BagOfSeq(findRecurringSubscriptions(PostFilter))
                           (+) BagOfSeq(findHighFrequencySmallPurchases(PostFilter))
                           (+) BagOfSeq(findUnusualSpikes(PostFilter))
          /\ \A k \in 1..Len(O) : O[k].type # "category_overspend"
          /\ report.budgetAnalysis = << >>
          /\ \A k, h \in 1..Len(O) :
                k < h => ~FracLess(O[k].potentialSavings, O[h].potentialSavings)

\* a call that returns an opportunity of each of the three types, two of
\* them referencing the same transaction
C10_Witness ==
    /\ called
    /\ \A ty \in {"recurring_subscription", "high_frequency_small",
                  "unusual_spike"} :
          \E k \in 1..Len(report.savingsOpportunities) :
              report.savingsOpportunities[k].type = ty
    /\ \E k, h \in 1..Len(report.savingsOpportunities) :
          /\ k # h
          /\ Range(report.savingsOpportunities[k].transactions)
               \cap Range(report.savingsOpportunities[h].transactions) # {}

\* the calendar month YYYYMM of a date 'YYYY-MM-DD'
CalendarMonth(date) == date \div 100

\* C11: monthlyTrends has exactly one entry for each calendar month that
\* occurs among the post-filter transactions, in strictly ascending month
\* order; each entry has netFlow = income - spent, and the entries' spent,
\* income and netFlow add up to totalSpent, totalIncome and netCashFlow.
C11_MonthlyTrends ==
    called =>
      LET M == report.monthlyTrends
          Spent(e) == e.spent
          Income(e) == e.income
          NetFlow(e) == e.netFlow
      IN  /\ {M[k].month : k \in 1..Len(M)}
                = {CalendarMonth(PostFilter[i].date) : i \in 1..Len(PostFilter)}
          /\ \A k, h \in 1..Len(M) : k < h => M[k].month < M[h].month
          /\ \A k \in 1..Len(M) : M[k].netFlow = M[k].income - M[k].spent
          /\ SumSeq(Map(M, Spent)) = report.totalSpent
          /\ SumSeq(Map(M, Income)) = report.totalIncome
          /\ SumSeq(Map(M, NetFlow)) = report.netCashFlow

\* C17: no division of a call has a zero denominator: the category average,
\* the monthly average, the percentage of the total, the relative change of
\* the trend (the first month's total), the subscription mean and variance,
\* the small-purchase and spike means and the outlier mean; and no quotient
\* kept in the report has one.
C17_NoDivisionByZero ==
    called =>
      LET D == divisions(filteredTransactions, tzWest)
          P == report.topSpendingCategories
          O == report.savingsOpportunities
      IN  /\ \A i \in 1..Len(D) : D[i].den # 0
          /\ \A k \in 1..Len(P) :
                /\ P[k].averageAmount.den # 0
                /\ P[k].monthlyAverage.den # 0
                /\ P[k].percentageOfTotal.den # 0
          /\ \A k \in 1..Len(O) : O[k].potentialSavings.den # 0

\* a call that evaluates a division of each kind, a trend's relative
\* change among them
C17_Witness ==
    /\ called
    /\ LET D == divisions(filteredTransactions, tzWest)
       IN  {D[i].site : i \in 1..Len(D)}
             = {"averageAmount", "monthlyAverage", "change",
                "percentageOfTotal", "subscription avgAmount",
                "subscription variance", "small avgAmount",
                "spike avgAmount", "unusual avgAmount"}

\* the trend the specification gives the outflows of one label: first and
\* last are their totals in their earliest and latest calendar month
StatedTrend(label) ==
    LET Under(t) == Label(t) = label
        of == SelectSeq(Outflows, Under)
        months == {CalendarMonth(of[i].date) : i \in 1..Len(of)}
        earliest == CHOOSE m \in months : \A n \in months : m <= n
        latest == CHOOSE m \in months : \A n \in months : n <= m
        Total(m) ==
            LET In(t) == CalendarMonth(t.date) = m
            IN  SumSeq(Map(SelectSeq(of, In), AbsAmountOf))
        first == Total(earliest)
        last == Total(latest)
    IN  IF Cardinality(months) < 2 THEN "stable"
        ELSE IF 10 * (last - first) > first THEN "increasing"
        ELSE IF 10 * (last - first) < -first THEN "decreasing"
        ELSE "stable"

\* C18: the trend of every spending pattern is 'stable' when the label's
\* outflows lie in fewer than 2 calendar months, and otherwise 'increasing'
\* iff (last - first) / first > 0.10, 'decreasing' iff it is < -0.10 and
\* 'stable' else, whatever the months in between hold.
C18_Trend ==
    called =>
      \A k \in 1..Len(report.topSpendingCategories) :
          report.topSpendingCategories[k].trend
            = StatedTrend(report.topSpendingCategories[k].category)

\* the opportunities of one type in the report
OfType(ty) ==
    LET Is(o) == o.type = ty IN SelectSeq(report.savingsOpportunities, Is)

\* the post-filter outflows of one payee name
OutflowsOfPayee(p) ==
    LET By(t) == t.payee_name = p IN SelectSeq(Outflows, By)

\* the population variance of the absolute amounts of s is strictly below
\* 0.10 times their mean, both in currency units: with n amounts a of sum
\* S the variance is the sum of (n * a - S)^2 over n^3
LowVariance(s) ==
    LET n == Len(s)
        S == SumSeq(Map(s, AbsAmountOf))
        Dev(t) == (n * Abs(t.amount) - S) * (n * Abs(t.amount) - S)
    IN  10 * SumSeq(Map(s, Dev)) < S * n * n * Unit

\* five charges of 9.99 by one payee in five months, in hundredths
FiveCharges ==
    [i \in 1..5 |->
        WithId(Txn(20240105 + 100 * i, -999, "acc1", "Streamer", "c6",
                   "Subscriptions", FALSE), i)]

\* C19: the report has exactly one recurring-subscription opportunity for
\* each payee name with at least 2 post-filter outflows whose variance is
\* below 0.10 times their mean, and no other; it has potentialSavings =
\* mean * 12 and confidence 'high' and references all and only that payee's
\* outflows.  Five charges of 9.99 give 119.88.
C19_RecurringSubscriptions ==
    /\ called =>
         LET R == OfType("recurring_subscription")
             PayeeOf(o) == o.transactions[1].payee_name
             qualifying ==
                 {p \in {Outflows[i].payee_name : i \in 1..Len(Outflows)} :
                     /\ p # ""
                     /\ Len(OutflowsOfPayee(p)) >= 2
                     /\ LowVariance(OutflowsOfPayee(p))}
         IN  /\ {PayeeOf(R[k]) : k \in 1..Len(R)} = qualifying
             /\ Len(R) = Cardinality(qualifying)
             /\ \A k \in 1..Len(R) :
                   LET of == OutflowsOfPayee(PayeeOf(R[k]))
                   IN  /\ R[k].transactions = of
                       /\ R[k].potentialSavings.den # 0
                       /\ R[k].potentialSavings.num * Len(of)
                            = 12 * SumSeq(Map(of, AbsAmountOf))
                                 * R[k].potentialSavings.den
                       /\ R[k].confidence = "high"
    /\ LET F == findRecurringSubscriptions(FiveCharges)
       IN  /\ Len(F) = 1
           /\ F[1].potentialSavings.num = 11988 * F[1].potentialSavings.den
           /\ F[1].confidence = "high"

\* a call that finds a subscription in three charges of different amounts
C19_Witness ==
    /\ called
    /\ \E k \in 1..Len(report.savingsOpportunities) :
          LET o == report.savingsOpportunities[k]
          IN  /\ o.type = "recurring_subscription"
              /\ Len(o.transactions) = 3
              /\ \A i, j \in 1..3 :
                    i # j => o.transactions[i].amount # o.transactions[j].amount

\* the post-filter outflows of one label that are below 20 currency units
SmallOutflowsOfLabel(l) ==
    LET Is(t) == Label(t) = l /\ Abs(t.amount) < 20 * Unit
    IN  SelectSeq(Outflows, Is)

\* C20: the report has exactly one high-frequency-small opportunity for
\* each label with at least 10 post-filter outflows of absolute value
\* strictly below 20, and none for a label with 9 or fewer; it has
\* potentialSavings = 30% of the sum of those small outflows only, and
\* confidence 'medium'.
C20_HighFrequencySmall ==
    called =>
      LET H == OfType("high_frequency_small")
          frequent ==
              {l \in {Label(Outflows[i]) : i \in 1..Len(Outflows)} :
                  Len(SmallOutflowsOfLabel(l)) >= 10}
      IN  /\ {H[k].category : k \in 1..Len(H)} = frequent
          /\ Len(H) = Cardinality(frequent)
          /\ \A k \in 1..Len(H) :
                LET small == SmallOutflowsOfLabel(H[k].category)
                IN  /\ H[k].potentialSavings.den # 0
                    /\ 10 * H[k].potentialSavings.num
                         = 3 * SumSeq(Map(small, AbsAmountOf))
                             * H[k].potentialSavings.den
                    /\ H[k].confidence = "medium"

\* a call that finds ten small purchases under a label that also has a
\* purchase of 20 or more
C20_Witness ==
    /\ called
    /\ \E k \in 1..Len(report.savingsOpportunities) :
          LET o == report.savingsOpportunities[k]
              Under(t) == Label(t) = o.category
          IN  /\ o.type = "high_frequency_small"
              /\ Len(o.transactions) = 10
              /\ Len(SelectSeq(Outflows, Under)) > 10


\* the post-filter outflows of one label
OutflowsOfLabel(l) ==
    LET Is(t) == Label(t) = l IN SelectSeq(Outflows, Is)

\* the label has at least 5 outflows, and their maximum is strictly
\* greater than 3 times their mean
HasSpike(l) ==
    LET of == Map(OutflowsOfLabel(l), AbsAmountOf)
    IN  /\ Len(of) >= 5
        /\ MaxSeq(of) * Len(of) > 3 * SumSeq(of)

\* C21: the report has exactly one unusual-spike opportunity for each
\* label with at least 5 post-filter outflows whose maximum absolute
\* amount is strictly greater than 3 times their mean, and no other; it
\* references exactly one transaction, the first in input order of the
\* maximum, and has potentialSavings = max - mean and confidence 'low'.
C21_UnusualSpikes ==
    called =>
      LET S == OfType("unusual_spike")
          spiky == {l \in {Label(Outflows[i]) : i \in 1..Len(Outflows)} :
                       HasSpike(l)}
      IN  /\ {S[k].category : k \in 1..Len(S)} = spiky
          /\ Len(S) = Cardinality(spiky)
          /\ \A k \in 1..Len(S) :
                LET of == OutflowsOfLabel(S[k].category)
                    max == MaxSeq(Map(of, AbsAmountOf))
                    sum == SumSeq(Map(of, AbsAmountOf))
                    first == CHOOSE i \in 1..Len(of) :
                                 /\ Abs(of[i].amount) = max
                                 /\ \A j \in 1..(i - 1) :
                                        Abs(of[j].amount) # max
                IN  /\ S[k].transactions = <<of[first]>>
                    /\ S[k].potentialSavings.den # 0
                    /\ S[k].potentialSavings.num * Len(of)
                         = (max * Len(of) - sum) * S[k].potentialSavings.den
                    /\ S[k].confidence = "low"

\* a call that finds a spike whose maximum two transactions share
C21_Witness ==
    /\ called
    /\ \E k \in 1..Len(report.savingsOpportunities) :
          LET o == report.savingsOpportunities[k]
          IN  /\ o.type = "unusual_spike"
              /\ \E i \in 1..Len(Outflows) :
                    /\ Outflows[i].id > o.transactions[1].id
                    /\ Outflows[i].amount = o.transactions[1].amount
                    /\ Label(Outflows[i]) = o.category

\* C22: unusualTransactions is empty when no post-filter transaction is an
\* outflow; otherwise it is, in input order, the post-filter transactions
\* of either sign whose absolute amount is strictly greater than 5 times
\* the mean absolute amount of the outflows.
C22_UnusualTransactions ==
    called =>
      LET n == Len(Outflows)
          sum == SumSeq(Map(Outflows, AbsAmountOf))
          Above(t) == Abs(t.amount) * n > 5 * sum
      IN  report.unusualTransactions =
              IF n = 0 THEN << >> ELSE SelectSeq(PostFilter, Above)

\* a call that reports an income transaction as unusual
C22_Witness ==
    /\ called
    /\ \E i \in 1..Len(report.unusualTransactions) :
          report.unusualTransactions[i].amount > 0

\* C29: the category of every savings opportunity is the resolved category
\* label of each of its supporting transactions.
C29_OpportunityCategory ==
    called =>
      \A k \in 1..Len(report.savingsOpportunities) :
          LET o == report.savingsOpportunities[k]
          IN  \A i \in 1..Len(o.transactions) :
                  Label(o.transactions[i]) = o.category

(***************************************************************************)
(* The tools and the cache.                                                *)
(***************************************************************************)
\* the handlers that read the parameters of their call
ReadsParameters(name) ==
    name \in {"sync_transactions", "analyze_transactions", "generate_report",
              "list_transactions"}

\* a parameter the tool reads has a value that is not of the type the
\* tool's schema gives it
Malformed(name, parameters) ==
    /\ parameters # << >>
    /\ LET p == parameters[1]
       IN  \/ /\ name \in {"sync_transactions", "analyze_transactions"}
              /\ p.months # << >>
              /\ p.months[1].type # "number"
           \/ /\ name = "list_transactions"
              /\ p.limit # << >>
              /\ p.limit[1].type # "number"
           \/ /\ name = "list_transactions"
              /\ p.category # << >>
              /\ p.category[1].type # "string"

\* generate_report is asked for a type that is none of its four
UnrecognizedReportType(name, parameters) ==
    /\ name = "generate_report"
    /\ parameters # << >>
    /\ parameters[1].type # << >>
    /\ ~ /\ parameters[1].type[1].type = "string"
         /\ parameters[1].type[1].string \in ReportTypes

\* the calls the claim C12 names: an unknown tool, parameters missing or
\* malformed, an unrecognized report type, a failure of the source
MustFail(o) ==
    \/ o.name \notin ToolNames
    \/ ReadsParameters(o.name) /\ o.parameters = << >>
    \/ Malformed(o.name, o.parameters)
    \/ UnrecognizedReportType(o.name, o.parameters)
    \/ o.failed

\* C12: executeTool never throws: every tool call returns a result with a
\* message; a call of an unknown tool, with missing or malformed
\* parameters, with an unrecognized report type or during which the
\* transaction source fails returns success = false; only the six tool
\* names return success = true.
C12_ExecuteToolNeverThrows ==
    outcome.op = "executeTool" =>
        /\ ~outcome.threw
        /\ outcome.message # ""
        /\ outcome.success => outcome.name \in ToolNames
        /\ MustFail(outcome) => ~outcome.success

\* C13: with caching enabled getTransactions answers from the cache only
\* while the entry is younger than the configured cache duration, and
\* fetches otherwise.
C13_ConfiguredCacheDuration ==
    (outcome.op = "getTransactions" /\ outcome.useCache /\ ~outcome.threw) =>
        /\ outcome.fromCache =>
               now - outcome.entry[1].timestamp < cacheDurationHours
        /\ ~outcome.fromCache => outcome.fetched

\* C14: a transaction list returned from the cache was fetched for the
\* budget that is selected when the call is made.
C14_CacheOfSelectedBudget ==
    outcome.fromCache => outcome.entry[1].fetchedFor = outcome.selected

\* C15: no entry written to the cache before a successful clear_cache tool
\* call is returned by a later getTransactions call.
C15_ClearCacheClearsAll ==
    outcome.fromCache => ~outcome.entry[1].survivedClear

\* what the API holds for budget b at hour h that is not deleted, as the
\* client hands it on
NewlyFetched(b, h) ==
    LET kept == SelectSeq(Response(b, h), NotDeleted)
    IN  [i \in 1..Len(kept) |->
            [id |-> kept[i].id,
             amount |-> Frac(kept[i].amount, MilliunitsPerUnit),
             category_name |-> kept[i].category_name, deleted |-> FALSE]]

\* a sync_transactions call whose parameters getTransactions accepts
SyncCall(o) ==
    /\ o.op = "executeTool"
    /\ o.name = "sync_transactions"
    /\ o.parameters # << >>
    /\ ~Malformed(o.name, o.parameters)

\* C16: sync_transactions always fetches from the budgeting API, a fresh
\* cache entry of its key notwithstanding; when it succeeds the one cache
\* file of its key holds the newly fetched transactions that are not
\* deleted, and the time of the call as its timestamp.
C16_SyncIgnoresCache ==
    SyncCall(outcome) =>
        /\ outcome.fetched
        /\ ~outcome.fromCache
        /\ outcome.success =>
               /\ budgetId # ""
               /\ outcome.key.budget \in {budgetId, "unknown"}
               /\ {f \in cache : f.key = outcome.key} =
                      {[key |-> outcome.key, timestamp |-> now,
                        transactions |-> NewlyFetched(budgetId, now),
                        fetchedFor |-> budgetId, survivedClear |-> FALSE]}
               /\ outcome.transactions = NewlyFetched(budgetId, now)

\* a successful sync at hour 12 over an entry written at hour 0
C16_Witness ==
    /\ SyncCall(outcome)
    /\ outcome.success
    /\ outcome.freshBefore
    /\ now = ClockStep
    /\ \E f \in cache : f.key = outcome.key /\ f.timestamp = now

\* a call of changeBudget, directly or by the change_budget tool, that has
\* returned
ChangedBudget ==
    /\ \/ outcome.op = "changeBudget"
       \/ outcome.op = "executeTool" /\ outcome.name = "change_budget"
    /\ ~outcome.threw
    /\ outcome.success

\* C23: when changeBudget has switched the client from a selected budget to
\* a different one, the cache directory holds what it held before without
\* the entries of the previous budget
C23_ChangeBudgetClearsPrevious ==
    (/\ ChangedBudget
     /\ outcome.oldBudgetId # ""
     /\ budgetId # outcome.oldBudgetId)
    => cache = {f \in outcome.cacheBefore :
                   f.key.budget # outcome.oldBudgetId}

\* C25: a getTransactions call whose fetch has failed has thrown, has
\* returned no transactions, none of the cache either, and has left the
\* cache directory as it was; a call changes the directory only when it
\* has fetched, and then the directory holds the entry it has written
C25_FailedFetch ==
    outcome.op = "getTransactions" =>
        /\ outcome.failed =>
              /\ outcome.threw
              /\ outcome.transactions = << >>
              /\ ~outcome.fromCache
              /\ cache = outcome.cacheBefore
        /\ ~(outcome.fetched /\ ~outcome.threw) =>
              cache = outcome.cacheBefore
        /\ (outcome.fetched /\ ~outcome.threw) =>
              /\ outcome.entry # << >>
              /\ outcome.entry[1] \in cache
              /\ outcome.entry[1].timestamp = now

\* C25 happens: the transactions request of a call with the cache fails
\* while the directory holds a stale entry under the call's key
C25_Witness ==
    /\ outcome.op = "getTransactions"
    /\ outcome.useCache
    /\ outcome.failed
    /\ outcome.fetched
    /\ budgetId # ""
    /\ \E f \in outcome.cacheBefore :
          /\ f.key = outcome.key
          /\ now - f.timestamp >= MaxCacheAgeHours

\* a getTransactions call that had to select the budget and has fetched
EnsuredBudget ==
    /\ outcome.op = "getTransactions"
    /\ outcome.oldBudgetId = ""
    /\ outcome.fetched
    /\ ~outcome.threw

\* C30: after ensureBudgetSelected or changeBudget has returned, the
\* client's budget id is one of the budgets of the API; without budgets the
\* selection throws, and the only budget is selected whatever the user
\* would pick
C30_SelectedBudgetIsListed ==
    /\ EnsuredBudget => InSeq(budgetId, budgets)
    /\ (outcome.op = "changeBudget" /\ ~outcome.threw) =>
           InSeq(budgetId, budgets)
    /\ (/\ outcome.op = "getTransactions"
        /\ outcome.oldBudgetId = ""
        /\ outcome.fetched
        /\ budgets = << >>) => outcome.threw
    /\ (EnsuredBudget /\ Len(budgets) = 1) => budgetId = budgets[1]

(***************************************************************************)
(* The interactive session.                                                *)
(***************************************************************************)
\* the blocks of a message of the given type, in order
BlocksOf(m, type) == LET Is(b) == b.type = type IN SelectSeq(m.content, Is)

\* the ids of those blocks, in order
IdsOf(m, type) == LET Id(b) == b.id IN Map(BlocksOf(m, type), Id)

\* the session is about to send a request: the first one of a turn from
\* the prompt, the continuation after the tool results
Sending == pc \in {"prompt", "continue"}

\* the request the session sends next
Request == IF pc = "continue" THEN ContinuationRequest ELSE FirstRequest

\* C24: each time the user is prompted, and so each time the first request
\* of a turn is sent, the history holds at most MAX_HISTORY_LENGTH messages
C24_HistoryBounded ==
    pc = "prompt" => Len(conversationHistory) <= MAX_HISTORY_LENGTH

\* C26: in the messages of every request each tool_result block answers a
\* tool_use block of the assistant message right before it, and each
\* tool_use block is answered in the user message right after it, one for
\* one and in the same order
C26_ToolResultsPaired ==
    Sending =>
        LET M == Request.messages
        IN  \A i \in 1..Len(M) :
              /\ IdsOf(M[i], "tool_result") # << >> =>
                    /\ i > 1
                    /\ M[i - 1].role = "assistant"
                    /\ IdsOf(M[i - 1], "tool_use") = IdsOf(M[i], "tool_result")
              /\ IdsOf(M[i], "tool_use") # << >> =>
                    /\ i < Len(M)
                    /\ M[i + 1].role = "user"
                    /\ IdsOf(M[i + 1], "tool_result") = IdsOf(M[i], "tool_use")

\* C27: the insights of every request are the analyzer's report of the
\* transactions the session holds
C27_InsightsOfHeldTransactions ==
    Sending => Request.system.insights = insightsOf(chatTransactions, tzWest)

\* the messages the history holds after the last message the user typed
TurnMessages ==
    LET M == conversationHistory
        typed == {i \in 1..Len(M) :
                    M[i].role = "user" /\ BlocksOf(M[i], "text") # << >>}
        last == IF typed = {} THEN 0
                ELSE CHOOSE i \in typed : \A k \in typed : k <= i
    IN  SubSeq(M, last + 1, Len(M))

\* C28: when the user is prompted again, the history holds after the
\* turn's message as many assistant texts as the turn has shown and the
\* tool calls the turn has executed, in order; a turn whose first request
\* failed has left the history as it was
C28_TurnRecorded ==
    (pc = "prompt" /\ turn.sent) =>
        IF turn.failed THEN conversationHistory = turn.historyBefore
        ELSE LET Texts(m) == BlocksOf(m, "text")
                 Names(m) == LET Name(b) == b.name
                             IN  Map(BlocksOf(m, "tool_use"), Name)
             IN  /\ Len(Flatten(Map(TurnMessages, Texts))) = turn.shown
                 /\ Flatten(Map(TurnMessages, Names)) = turn.executed

====
